---- MODULE Spec2Model ----
(***************************************************************************)
(* Dynamic task manager of the ESP32 FreeRTOS sensor node.                 *)
(*                                                                         *)
(*   main/main.c          uart_read_json_config, app_main                  *)
(*   main/task_manager.c  task_manager_parse_and_create,                   *)
(*                        task_manager_stop_all, dynamic_sensor_task,      *)
(*                        uart_log                                         *)
(*   main/sensors.c       read_*_averaged, get_ultrasonic_data             *)
(*                                                                         *)
(* Three specifications share the variables and the actions:               *)
(*   Spec      app_main from the return of the config transport, the       *)
(*             spawned routines running concurrently, and a caller of      *)
(*             task_manager_stop_all;                                      *)
(*   SpecBoot  app_main alone on payloads of up to MaxRecords records;     *)
(*   SpecRx / SpecFill  the receive loop of uart_read_json_config.         *)
(***************************************************************************)
EXTENDS Integers, Sequences, FiniteSets, TLC

\* ------------------------------------------------------------------------
\* Program constants
\* ------------------------------------------------------------------------
MAX_TASKS == 32
MAX_SENSORS_PER_TASK == 3
MAX_TASK_NAME_LEN == 32
UART_BUF_SIZE == 4096
\* sizeof(data) of the receive chunk buffer
DATA_SIZE == 128

SENSOR_DHT11 == 0
SENSOR_ULTRASONIC == 1
SENSOR_MPU6050 == 2
SENSOR_NONE == 3

\* ------------------------------------------------------------------------
\* Bounds of the model
\* ------------------------------------------------------------------------
\* the averaged readers take the sample count as a parameter; the routine
\* passes 10, the model passes NumSamples
NumSamples == 2
\* longest tasks array of the boot specification (one more than MAX_TASKS)
MaxRecords == 33
\* longest tasks array of the mixed (well-formed / malformed) family
SmallLen == 2
\* how many routine creations (malloc or xTaskCreate) may fail in one run
MaxSpawnFailures == 1
\* how many chunks the transport receives in SpecRx
MaxChunks == 4

\* ------------------------------------------------------------------------
\* Variables
\* ------------------------------------------------------------------------
VARIABLES
    \* app_main / task_manager_parse_and_create
    json_config,        \* what uart_read_json_config returned, as cJSON sees it
    mainPc,             \* position of app_main
    loop_i,             \* i of the record loop
    task_count,         \* task_count of task_manager_parse_and_create
    ret,                \* value returned by task_manager_parse_and_create
    status,             \* the status token app_main chose
    tx,                 \* tokens the boot routine wrote to the UART, in order
    \* registry
    task_handles,       \* task_handles[0 .. MAX_TASKS-1], 0 is NULL
    active_task_count,
    oob_handle,         \* the handles stored past the end of task_handles
    \* routines
    rt,                 \* rt[tid]: state of the routine created tid-th
    spawn_of,           \* spawn_of[tid]: index of the record it was built from
    spawn_failed,       \* records whose malloc or xTaskCreate failed
    live_configs,       \* tids whose task_config_t is still allocated
    \* locks and sensor layer
    mutex,              \* holder of each mutex, 0 when free
    s_mpu_inited,
    pins_inited,
    \* caller of task_manager_stop_all
    stopPc,
    stop_i,
    \* uart_read_json_config
    rxPc,
    started,
    total_len,
    config_buffer,      \* the first total_len bytes of config_buffer
    buf_hi,             \* highest index of config_buffer written so far
    data_hi,            \* highest index of data[] written so far
    rx_chunks,          \* the chunks received so far, in order
    rx_dropped,         \* a chunk did not fit and was dropped
    rx_ret,             \* what uart_read_json_config returned
    xTickCount          \* the tick count xTaskGetTickCount returns

mainVars == <<json_config, mainPc, loop_i, task_count, ret, status, tx>>
regVars == <<task_handles, active_task_count, oob_handle>>
taskVars == <<rt, spawn_of, spawn_failed, live_configs>>
lockVars == <<mutex, s_mpu_inited, pins_inited>>
stopVars == <<stopPc, stop_i>>
rxVars == <<rxPc, started, total_len, config_buffer, buf_hi, data_hi,
            rx_chunks, rx_dropped, rx_ret>>
timeVars == <<xTickCount>>
vars == <<mainVars, regVars, taskVars, lockVars, stopVars, rxVars, timeVars>>

\* ------------------------------------------------------------------------
\* Helpers
\* ------------------------------------------------------------------------
Min(a, b) == IF a < b THEN a ELSE b

Range(s) == {s[k] : k \in DOMAIN s}

NULL == 0

Mutexes == {"dht_mutex", "ultrasonic_mutex", "mpu_mutex", "uart_mutex"}

SensorMutexes == {"dht_mutex", "ultrasonic_mutex", "mpu_mutex"}

\* the mutex dynamic_sensor_task passes to the reader of each sensor kind
MutexOf(kind) ==
    CASE kind = SENSOR_DHT11 -> "dht_mutex"
      [] kind = SENSOR_ULTRASONIC -> "ultrasonic_mutex"
      [] kind = SENSOR_MPU6050 -> "mpu_mutex"

\* ------------------------------------------------------------------------
\* The configuration document
\* ------------------------------------------------------------------------
RequiredFields == {"name", "priority", "period_ms", "sensors"}

\* an element of a sensors array that is not a JSON string (valuestring NULL)
NonString == "#nonstring"

\* a task record of the tasks array with the fields of has present
TaskRecord(n, s, has) ==
    [has |-> has, name |-> n, priority |-> 5, period_ms |-> 1000, sensors |-> s]

TasksDoc(records) == [kind |-> "tasks", tasks |-> records]

\* uart_read_json_config returned NULL; cJSON_Parse failed; no "tasks" item;
\* "tasks" is not an array
FailureDocs ==
    {[kind |-> k, tasks |-> <<>>] :
        k \in {"null", "unparsable", "no_tasks", "not_array"}}

\* the name of the record at position k of a generated payload
NameAt(k) == <<"T", k>>

\* ------------------------------------------------------------------------
\* task_manager_parse_and_create: pure parts
\* ------------------------------------------------------------------------
\* strncpy(dst, src, n) into a zeroed destination
Strncpy(src, n) == SubSeq(src, 1, Min(Len(src), n))

\* mutant: an unknown identifier falls back to the first sensor kind
parse_sensor_type_Fallback(sensor_str) ==
    CASE sensor_str = "dht11" -> SENSOR_DHT11
      [] sensor_str = "ultrasonic" -> SENSOR_ULTRASONIC
      [] sensor_str = "mpu6050" -> SENSOR_MPU6050
      [] OTHER -> SENSOR_DHT11

\* strcmp against the three identifiers, SENSOR_NONE otherwise
parse_sensor_type(sensor_str) ==
    CASE sensor_str = "dht11" -> SENSOR_DHT11
      [] sensor_str = "ultrasonic" -> SENSOR_ULTRASONIC
      [] sensor_str = "mpu6050" -> SENSOR_MPU6050
      [] OTHER -> SENSOR_NONE

\* mutant: the truncation to MAX_TASKS is lost
TruncateTaskCount_NoCap(n) == n

\* task_count after the truncation to MAX_TASKS
TruncateTaskCount(n) == IF n > MAX_TASKS THEN MAX_TASKS ELSE n

\* mutant: the sensors field is not required
HasRequiredFields_NoSensors(rec) ==
    {"name", "priority", "period_ms"} \subseteq rec.has

\* !(!name || !priority || !period || !sensors)
HasRequiredFields(rec) == RequiredFields \subseteq rec.has

\* cJSON_GetArraySize of the sensors item
SensorArraySize(rec) == IF "sensors" \in rec.has THEN Len(rec.sensors) ELSE 0

\* mutant: the sensor list is cut one entry short
CompileConfig_CapTwo(rec) ==
    LET sensor_count == SensorArraySize(rec)
        n == IF sensor_count > MAX_SENSORS_PER_TASK - 1
                THEN MAX_SENSORS_PER_TASK - 1 ELSE sensor_count
    IN  [name |-> Strncpy(rec.name, MAX_TASK_NAME_LEN - 1),
         priority |-> rec.priority,
         period_ms |-> rec.period_ms,
         sensor_count |-> n,
         sensors |-> [j \in 0 .. MAX_SENSORS_PER_TASK - 1 |->
                        IF j < n /\ rec.sensors[j + 1] # NonString
                            THEN parse_sensor_type(rec.sensors[j + 1])
                            ELSE 0]]

\* the task_config_t built from one record: memset to zero, then the fields
CompileConfig(rec) ==
    LET sensor_count == SensorArraySize(rec)
        n == IF sensor_count > MAX_SENSORS_PER_TASK
                THEN MAX_SENSORS_PER_TASK ELSE sensor_count
    IN  [name |-> Strncpy(rec.name, MAX_TASK_NAME_LEN - 1),
         priority |-> rec.priority,
         period_ms |-> rec.period_ms,
         sensor_count |-> n,
         sensors |-> [j \in 0 .. MAX_SENSORS_PER_TASK - 1 |->
                        IF j < n /\ rec.sensors[j + 1] # NonString
                            THEN parse_sensor_type(rec.sensors[j + 1])
                            ELSE 0]]

\* mutant: zero routines still reports success
StatusToken_ZeroOk(count) ==
    IF count >= 0 THEN "TASKS_CREATED\n" ELSE "ERROR\n"

\* the token app_main writes for the value task_manager_parse_and_create
\* returned
StatusToken(count) == IF count > 0 THEN "TASKS_CREATED\n" ELSE "ERROR\n"

\* ------------------------------------------------------------------------
\* values: a float is kept as an exact fraction <<numerator, denominator>>
\* ------------------------------------------------------------------------
RECURSIVE GCD(_, _)
GCD(a, b) == IF b = 0 THEN a ELSE GCD(b, a % b)

\* a fraction in lowest terms (all modelled quantities are non-negative)
Frac(n, d) == LET g == GCD(n, d) IN <<n \div g, d \div g>>

FracAdd(p, q) == Frac(p[1] * q[2] + q[1] * p[2], p[2] * q[2])

\* sensor_readings_t after memset(&readings, 0, sizeof(readings))
ZeroReadings ==
    [dht_humidity |-> Frac(0, 1), dht_temperature |-> Frac(0, 1),
     ultrasonic_distance |-> 0,
     mpu_accel_x |-> Frac(0, 1), mpu_accel_y |-> Frac(0, 1),
     mpu_accel_z |-> Frac(0, 1)]

\* the accumulators of an averaged reader at its entry
ZeroSums ==
    [sum_hum |-> Frac(0, 1), sum_temp |-> Frac(0, 1), sum_dist |-> 0,
     sum_x |-> Frac(0, 1), sum_y |-> Frac(0, 1), sum_z |-> Frac(0, 1)]

\* printf %.<digits>f of a non-negative fraction, as the integer made of
\* the printed digits (45.5 printed with one decimal is 455)
Pow10(digits) == IF digits = 1 THEN 10 ELSE 1000

FormatFloat(q, digits) ==
    (2 * q[1] * Pow10(digits) + q[2]) \div (2 * q[2])

\* no line is being written
NoLine == [tag |-> <<>>, text |-> "", fields |-> <<>>]

\* the bytes uart_log writes on a successful cycle: the buffer snprintf
\* filled at task_manager.c:64-72, passed through "%s"
MeasurementLine(name, readings) ==
    [tag |-> <<name>>,
     text |-> "H:%.1f%% T:%.1fC Dist:%dcm AccX:%.3fg AccY:%.3fg AccZ:%.3fg\n",
     fields |-> <<FormatFloat(readings.dht_humidity, 1),
                  FormatFloat(readings.dht_temperature, 1),
                  readings.ultrasonic_distance,
                  FormatFloat(readings.mpu_accel_x, 3),
                  FormatFloat(readings.mpu_accel_y, 3),
                  FormatFloat(readings.mpu_accel_z, 3)>>]

\* the bytes uart_log writes on a failed cycle: uart_log formats only its
\* format argument and never uses task_name
ReadErrorLine(name) == [tag |-> <<>>, text |-> "Read error\n", fields |-> <<>>]

\* the local start has not been assigned yet
NoTick == -1

\* the tick rate of the FreeRTOS build (ESP-IDF default)
configTICK_RATE_HZ == 100

pdMS_TO_TICKS(ms) == (ms * configTICK_RATE_HZ) \div 1000

\* a routine just created by xTaskCreate
NewTask(config) ==
    [pc |-> "start", config |-> config, i |-> 0, s |-> 0,
     valid_count |-> 0, success |-> 1,
     sum |-> ZeroSums, readings |-> ZeroReadings, samples |-> <<>>,
     line |-> NoLine, lines |-> 0, attempted |-> <<>>, failed |-> {},
     start |-> NoTick, overran |-> FALSE]

\* ------------------------------------------------------------------------
\* app_main, from the return of uart_read_json_config
\* ------------------------------------------------------------------------
\* if (json_config) ... else: no configuration was received
AppMainNoConfig ==
    /\ mainPc = "config"
    /\ json_config.kind = "null"
    /\ status' = "ERROR\n"
    /\ mainPc' = "token"
    /\ UNCHANGED <<json_config, loop_i, task_count, ret, tx>>
    /\ UNCHANGED <<regVars, taskVars, lockVars, stopVars, rxVars>>
    /\ UNCHANGED timeVars

\* cJSON_Parse returned NULL: return -1
ParseError ==
    /\ mainPc = "config"
    /\ json_config.kind = "unparsable"
    /\ ret' = -1
    /\ mainPc' = "returned"
    /\ UNCHANGED <<json_config, loop_i, task_count, status, tx>>
    /\ UNCHANGED <<regVars, taskVars, lockVars, stopVars, rxVars>>
    /\ UNCHANGED timeVars

\* !cJSON_IsArray(tasks_array): return -1
InvalidTasksArray ==
    /\ mainPc = "config"
    /\ json_config.kind \in {"no_tasks", "not_array"}
    /\ ret' = -1
    /\ mainPc' = "returned"
    /\ UNCHANGED <<json_config, loop_i, task_count, status, tx>>
    /\ UNCHANGED <<regVars, taskVars, lockVars, stopVars, rxVars>>
    /\ UNCHANGED timeVars

\* task_count = cJSON_GetArraySize(tasks_array), truncated; i = 0
ParseBegin ==
    /\ mainPc = "config"
    /\ json_config.kind = "tasks"
    /\ task_count' = TruncateTaskCount(Len(json_config.tasks))
    /\ loop_i' = 0
    /\ mainPc' = "loop"
    /\ UNCHANGED <<json_config, ret, status, tx>>
    /\ UNCHANGED <<regVars, taskVars, lockVars, stopVars, rxVars>>
    /\ UNCHANGED timeVars

\* a creation may still fail in this run
MayFail == Cardinality(spawn_failed) < MaxSpawnFailures

\* malloc(sizeof(task_config_t)) failed: continue
RecordMallocFail ==
    /\ mainPc = "loop"
    /\ loop_i < task_count
    /\ MayFail
    /\ spawn_failed' = spawn_failed \cup {loop_i + 1}
    /\ loop_i' = loop_i + 1
    /\ UNCHANGED <<json_config, mainPc, task_count, ret, status, tx>>
    /\ UNCHANGED <<rt, spawn_of, live_configs>>
    /\ UNCHANGED <<regVars, lockVars, stopVars, rxVars>>
    /\ UNCHANGED timeVars

\* a required field is missing: free(config); continue
RecordMissingField ==
    /\ mainPc = "loop"
    /\ loop_i < task_count
    /\ ~HasRequiredFields(json_config.tasks[loop_i + 1])
    /\ loop_i' = loop_i + 1
    /\ UNCHANGED <<json_config, mainPc, task_count, ret, status, tx>>
    /\ UNCHANGED <<regVars, taskVars, lockVars, stopVars, rxVars>>
    /\ UNCHANGED timeVars

\* the record is compiled and xTaskCreate returns pdPASS: the handle is
\* stored at task_handles[active_task_count] and the count incremented
RecordSpawn ==
    /\ mainPc = "loop"
    /\ loop_i < task_count
    /\ HasRequiredFields(json_config.tasks[loop_i + 1])
    /\ LET config == CompileConfig(json_config.tasks[loop_i + 1])
           tid == Len(rt) + 1
       IN  /\ rt' = Append(rt, NewTask(config))
           /\ spawn_of' = Append(spawn_of, loop_i + 1)
           /\ live_configs' = live_configs \cup {tid}
           /\ IF active_task_count < MAX_TASKS
                 THEN /\ task_handles' =
                            [task_handles EXCEPT ![active_task_count] = tid]
                      /\ UNCHANGED oob_handle
                 ELSE /\ oob_handle' = oob_handle \cup {tid}
                      /\ UNCHANGED task_handles
    /\ active_task_count' = active_task_count + 1
    /\ loop_i' = loop_i + 1
    /\ UNCHANGED <<json_config, mainPc, task_count, ret, status, tx>>
    /\ UNCHANGED <<spawn_failed, lockVars, stopVars, rxVars>>
    /\ UNCHANGED timeVars

\* mutant: a failed xTaskCreate still counts as a started routine
RecordSpawnFail_Counted ==
    /\ mainPc = "loop"
    /\ loop_i < task_count
    /\ HasRequiredFields(json_config.tasks[loop_i + 1])
    /\ MayFail
    /\ spawn_failed' = spawn_failed \cup {loop_i + 1}
    /\ active_task_count' = active_task_count + 1
    /\ loop_i' = loop_i + 1
    /\ UNCHANGED <<json_config, mainPc, task_count, ret, status, tx>>
    /\ UNCHANGED <<rt, spawn_of, live_configs>>
    /\ UNCHANGED <<task_handles, oob_handle, lockVars, stopVars, rxVars>>
    /\ UNCHANGED timeVars

\* the record is compiled and xTaskCreate fails: free(config), the registry
\* is not touched
RecordSpawnFail ==
    /\ mainPc = "loop"
    /\ loop_i < task_count
    /\ HasRequiredFields(json_config.tasks[loop_i + 1])
    /\ MayFail
    /\ spawn_failed' = spawn_failed \cup {loop_i + 1}
    /\ loop_i' = loop_i + 1
    /\ UNCHANGED <<json_config, mainPc, task_count, ret, status, tx>>
    /\ UNCHANGED <<rt, spawn_of, live_configs>>
    /\ UNCHANGED <<regVars, lockVars, stopVars, rxVars>>
    /\ UNCHANGED timeVars

\* the loop is over: cJSON_Delete(root); return active_task_count
ParseReturn ==
    /\ mainPc = "loop"
    /\ loop_i >= task_count
    /\ ret' = active_task_count
    /\ mainPc' = "returned"
    /\ UNCHANGED <<json_config, loop_i, task_count, status, tx>>
    /\ UNCHANGED <<regVars, taskVars, lockVars, stopVars, rxVars>>
    /\ UNCHANGED timeVars

\* if (task_count > 0) ... else ...
AppMainCheck ==
    /\ mainPc = "returned"
    /\ status' = StatusToken(ret)
    /\ mainPc' = "token"
    /\ UNCHANGED <<json_config, loop_i, task_count, ret, tx>>
    /\ UNCHANGED <<regVars, taskVars, lockVars, stopVars, rxVars>>
    /\ UNCHANGED timeVars

\* uart_write_bytes(UART_NUM, token, n) is entered, without uart_mutex
TokenWriteBegin ==
    /\ mainPc = "token"
    /\ tx' = Append(tx, status)
    /\ mainPc' = "token_write"
    /\ UNCHANGED <<json_config, loop_i, task_count, ret, status>>
    /\ UNCHANGED <<regVars, taskVars, lockVars, stopVars, rxVars>>
    /\ UNCHANGED timeVars

\* uart_write_bytes returns
TokenWriteEnd ==
    /\ mainPc = "token_write"
    /\ mainPc' = "done"
    /\ UNCHANGED <<json_config, loop_i, task_count, ret, status, tx>>
    /\ UNCHANGED <<regVars, taskVars, lockVars, stopVars, rxVars>>
    /\ UNCHANGED timeVars

\* ------------------------------------------------------------------------
\* FreeRTOS primitives, as the repository uses them
\* ------------------------------------------------------------------------
\* mutant: the take does not wait for the holder
CanTake_NoWait(m) == TRUE

\* xSemaphoreTake(m, portMAX_DELAY) returns only once the mutex is free
CanTake(m) == mutex[m] = NULL

\* ------------------------------------------------------------------------
\* dynamic_sensor_task
\* ------------------------------------------------------------------------
Tasks == DOMAIN rt

\* top of the while loop: start = xTaskGetTickCount(), clear the readings,
\* success = 1, i = 0
TaskStart(r) ==
    /\ rt[r].pc = "start"
    /\ rt' = [rt EXCEPT ![r].pc = "slot", ![r].i = 0, ![r].success = 1,
                        ![r].start = xTickCount, ![r].overran = FALSE,
                        ![r].readings = ZeroReadings,
                        ![r].attempted = <<>>, ![r].failed = {},
                        ![r].lines = 0]
    /\ UNCHANGED <<spawn_of, spawn_failed, live_configs>>
    /\ UNCHANGED <<mainVars, regVars, lockVars, stopVars, rxVars>>
    /\ UNCHANGED timeVars

\* mutant: a failed sampler ends the for loop
TaskSlot_Break(r) ==
    /\ rt[r].pc = "slot"
    /\ LET t == rt[r]
           kind == t.config.sensors[t.i]
       IN  IF t.i < t.config.sensor_count
             THEN IF kind = SENSOR_NONE
                    THEN rt' = [rt EXCEPT ![r].i = t.i + 1]
                    ELSE IF NumSamples <= 0
                            \/ (kind = SENSOR_MPU6050 /\ ~s_mpu_inited)
                      THEN rt' = [rt EXCEPT ![r].pc = "log",
                                    ![r].i = t.config.sensor_count,
                                    ![r].success = 0,
                                    ![r].attempted = Append(t.attempted, t.i),
                                    ![r].failed = t.failed \cup {t.i}]
                      ELSE rt' = [rt EXCEPT ![r].pc = "take", ![r].s = 0,
                                    ![r].valid_count = 0,
                                    ![r].sum = ZeroSums,
                                    ![r].samples = <<>>,
                                    ![r].attempted = Append(t.attempted, t.i)]
             ELSE rt' = [rt EXCEPT ![r].pc = "log"]
    /\ UNCHANGED <<spawn_of, spawn_failed, live_configs>>
    /\ UNCHANGED <<mainVars, regVars, lockVars, stopVars, rxVars>>
    /\ UNCHANGED timeVars

\* one turn of the for loop over config->sensors up to the first sample of
\* an averaged reader, or, past the last slot, to the call of uart_log
TaskSlot(r) ==
    /\ rt[r].pc = "slot"
    /\ LET t == rt[r]
           kind == t.config.sensors[t.i]
       IN  IF t.i < t.config.sensor_count
             THEN IF kind = SENSOR_NONE
                    THEN rt' = [rt EXCEPT ![r].i = t.i + 1]
                    ELSE IF NumSamples <= 0
                            \/ (kind = SENSOR_MPU6050 /\ ~s_mpu_inited)
                      THEN rt' = [rt EXCEPT ![r].i = t.i + 1,
                                    ![r].success = 0,
                                    ![r].attempted = Append(t.attempted, t.i),
                                    ![r].failed = t.failed \cup {t.i}]
                      ELSE rt' = [rt EXCEPT ![r].pc = "take", ![r].s = 0,
                                    ![r].valid_count = 0,
                                    ![r].sum = ZeroSums,
                                    ![r].samples = <<>>,
                                    ![r].attempted = Append(t.attempted, t.i)]
             ELSE rt' = [rt EXCEPT ![r].pc = "log"]
    /\ UNCHANGED <<spawn_of, spawn_failed, live_configs>>
    /\ UNCHANGED <<mainVars, regVars, lockVars, stopVars, rxVars>>
    /\ UNCHANGED timeVars

\* the sensor kind of the slot the routine is sampling
KindOf(r) == rt[r].config.sensors[rt[r].i]

\* xSemaphoreTake(handle, portMAX_DELAY) of one sample: sensors.c:139 for the
\* DHT11, :15 in get_ultrasonic_data, :192 for the MPU6050 (the handles are
\* the mutexes task_manager_init created, never NULL); get_ultrasonic_data
\* initialises the pins on its first call, under the lock
SampleTake(r) ==
    /\ rt[r].pc = "take"
    /\ CanTake(MutexOf(KindOf(r)))
    /\ mutex' = [mutex EXCEPT ![MutexOf(KindOf(r))] = r]
    /\ pins_inited' = (pins_inited \/ KindOf(r) = SENSOR_ULTRASONIC)
    /\ rt' = [rt EXCEPT ![r].pc = "read"]
    /\ UNCHANGED <<s_mpu_inited, spawn_of, spawn_failed, live_configs>>
    /\ UNCHANGED <<mainVars, regVars, stopVars, rxVars>>
    /\ UNCHANGED timeVars

\* what one single-shot read can return: dht_read_data gives an error code
\* and two int16 in tenths; get_ultrasonic_data gives -1 or duration_us / 58,
\* which is 0 for an echo shorter than 58 us; mpu6050_get_motion gives an
\* error code and three floats (kept in thousandths of a g)
DhtReads(vals) ==
    {[err |-> "ESP_OK", humidity |-> v[1], temperature |-> v[2]] : v \in vals}
        \cup {[err |-> "ESP_FAIL", humidity |-> 0, temperature |-> 0]}

UltrasonicReads(vals) == {[dist |-> d] : d \in vals \cup {-1}}

MpuReads(vals) ==
    {[err |-> "ESP_OK", x |-> v, y |-> v + 1, z |-> 1000 - v] : v \in vals}
        \cup {[err |-> "ESP_FAIL", x |-> 0, y |-> 0, z |-> 0]}

\* the test each averaged reader applies to a single-shot result before
\* accumulating it: sensors.c:144, :168, :196
Counted(kind, res) ==
    IF kind = SENSOR_ULTRASONIC THEN res.dist > 0 ELSE res.err = "ESP_OK"

\* the accumulation of one counted sample: sensors.c:145-146, :169, :197-199
Accumulate(kind, sum, res) ==
    CASE kind = SENSOR_DHT11 ->
            [sum EXCEPT !.sum_hum = FracAdd(@, Frac(res.humidity, 10)),
                        !.sum_temp = FracAdd(@, Frac(res.temperature, 10))]
      [] kind = SENSOR_ULTRASONIC ->
            [sum EXCEPT !.sum_dist = @ + res.dist]
      [] OTHER ->
            [sum EXCEPT !.sum_x = FracAdd(@, Frac(res.x, 1000)),
                        !.sum_y = FracAdd(@, Frac(res.y, 1000)),
                        !.sum_z = FracAdd(@, Frac(res.z, 1000))]

\* mutant: the sensor mutex is kept across the inter-sample delay
SampleRead_NoGive(r, res) ==
    /\ rt[r].pc = "read"
    /\ LET t == rt[r]
           counted == Counted(KindOf(r), res)
       IN  rt' = [rt EXCEPT
                ![r].pc = IF t.s < NumSamples - 1 THEN "delay" ELSE "ret",
                ![r].valid_count = IF counted THEN @ + 1 ELSE @,
                ![r].sum = IF counted THEN Accumulate(KindOf(r), @, res)
                                      ELSE @,
                ![r].samples = Append(@, res)]
    /\ UNCHANGED <<mutex, s_mpu_inited, pins_inited>>
    /\ UNCHANGED <<spawn_of, spawn_failed, live_configs>>
    /\ UNCHANGED <<mainVars, regVars, stopVars, rxVars>>
    /\ UNCHANGED timeVars

\* the single-shot read returns res, the mutex is given back (sensors.c:142,
\* :44/:56, :194) and the sample is accumulated if the reader counts it
SampleRead(r, res) ==
    /\ rt[r].pc = "read"
    /\ mutex' = [mutex EXCEPT ![MutexOf(KindOf(r))] = NULL]
    /\ LET t == rt[r]
           counted == Counted(KindOf(r), res)
       IN  rt' = [rt EXCEPT
                ![r].pc = IF t.s < NumSamples - 1 THEN "delay" ELSE "ret",
                ![r].valid_count = IF counted THEN @ + 1 ELSE @,
                ![r].sum = IF counted THEN Accumulate(KindOf(r), @, res)
                                      ELSE @,
                ![r].samples = Append(@, res)]
    /\ UNCHANGED <<s_mpu_inited, pins_inited>>
    /\ UNCHANGED <<spawn_of, spawn_failed, live_configs>>
    /\ UNCHANGED <<mainVars, regVars, stopVars, rxVars>>
    /\ UNCHANGED timeVars

\* the results the single-shot read of routine r can return, the sensor
\* values being drawn from the given sets
ReadsOf(r, dht, dist, accel) ==
    IF rt[r].pc # "read" THEN {}
    ELSE CASE KindOf(r) = SENSOR_DHT11 -> DhtReads(dht)
           [] KindOf(r) = SENSOR_ULTRASONIC -> UltrasonicReads(dist)
           [] OTHER -> MpuReads(accel)

\* one nominal value per sensor: 45.5 %, 21.5 C; 7 cm; 0.012 g
NominalDht == {<<455, 215>>}

NominalDist == {7}

NominalAccel == {12}

\* vTaskDelay between two samples returns
SampleDelay(r) ==
    /\ rt[r].pc = "delay"
    /\ rt' = [rt EXCEPT ![r].pc = "take", ![r].s = rt[r].s + 1]
    /\ UNCHANGED <<spawn_of, spawn_failed, live_configs>>
    /\ UNCHANGED <<mainVars, regVars, lockVars, stopVars, rxVars>>
    /\ UNCHANGED timeVars

\* the readings an averaged reader stores when valid_count > 0:
\* sensors.c:154-155, :177, :207-209 (the distance is an int division)
StoreMean(kind, readings, sum, valid_count) ==
    CASE kind = SENSOR_DHT11 ->
            [readings EXCEPT
                !.dht_humidity =
                    Frac(sum.sum_hum[1], sum.sum_hum[2] * valid_count),
                !.dht_temperature =
                    Frac(sum.sum_temp[1], sum.sum_temp[2] * valid_count)]
      [] kind = SENSOR_ULTRASONIC ->
            [readings EXCEPT
                !.ultrasonic_distance = sum.sum_dist \div valid_count]
      [] OTHER ->
            [readings EXCEPT
                !.mpu_accel_x = Frac(sum.sum_x[1], sum.sum_x[2] * valid_count),
                !.mpu_accel_y = Frac(sum.sum_y[1], sum.sum_y[2] * valid_count),
                !.mpu_accel_z = Frac(sum.sum_z[1], sum.sum_z[2] * valid_count)]

\* after the last sample the averaged reader returns: -1 when no sample was
\* counted, else 0 with the means stored; the caller clears success on a
\* non-zero return and the for loop moves to the next slot
ReaderReturn(r) ==
    /\ rt[r].pc = "ret"
    /\ LET t == rt[r]
       IN  rt' = [rt EXCEPT
                ![r].pc = "slot",
                ![r].i = t.i + 1,
                ![r].success = IF t.valid_count = 0 THEN 0 ELSE @,
                ![r].failed = IF t.valid_count = 0 THEN @ \cup {t.i} ELSE @,
                ![r].readings =
                    IF t.valid_count = 0 THEN @
                    ELSE StoreMean(KindOf(r), @, t.sum, t.valid_count),
                ![r].s = 0, ![r].valid_count = 0,
                ![r].sum = ZeroSums, ![r].samples = <<>>]
    /\ UNCHANGED <<spawn_of, spawn_failed, live_configs>>
    /\ UNCHANGED <<mainVars, regVars, lockVars, stopVars, rxVars>>
    /\ UNCHANGED timeVars

\* uart_log: xSemaphoreTake(uart_mutex), format, enter uart_write_bytes
\* with the formatted line
LogTake(r) ==
    /\ rt[r].pc = "log"
    /\ CanTake("uart_mutex")
    /\ mutex' = [mutex EXCEPT !["uart_mutex"] = r]
    /\ rt' = [rt EXCEPT
            ![r].pc = "write",
            ![r].line = IF rt[r].success # 0
                          THEN MeasurementLine(rt[r].config.name,
                                               rt[r].readings)
                          ELSE ReadErrorLine(rt[r].config.name),
            ![r].lines = @ + 1]
    /\ UNCHANGED <<s_mpu_inited, pins_inited>>
    /\ UNCHANGED <<spawn_of, spawn_failed, live_configs>>
    /\ UNCHANGED <<mainVars, regVars, stopVars, rxVars>>
    /\ UNCHANGED timeVars

\* mutant: uart_log returns without giving uart_mutex back
LogWriteEnd_NoGive(r) ==
    /\ rt[r].pc = "write"
    /\ rt' = [rt EXCEPT ![r].pc = "sleep", ![r].line = NoLine]
    /\ UNCHANGED <<mutex, s_mpu_inited, pins_inited>>
    /\ UNCHANGED <<spawn_of, spawn_failed, live_configs>>
    /\ UNCHANGED <<mainVars, regVars, stopVars, rxVars>>
    /\ UNCHANGED timeVars

\* uart_log: uart_write_bytes returns, xSemaphoreGive(uart_mutex); the
\* routine then suspends in vTaskDelayUntil
LogWriteEnd(r) ==
    /\ rt[r].pc = "write"
    /\ mutex' = [mutex EXCEPT !["uart_mutex"] = NULL]
    /\ rt' = [rt EXCEPT ![r].pc = "sleep", ![r].line = NoLine]
    /\ UNCHANGED <<s_mpu_inited, pins_inited>>
    /\ UNCHANGED <<spawn_of, spawn_failed, live_configs>>
    /\ UNCHANGED <<mainVars, regVars, stopVars, rxVars>>
    /\ UNCHANGED timeVars

\* vTaskDelayUntil(&start, period) unblocks the routine: start is advanced
\* by the period; the call did not block at all when that time had passed
TaskWake(r) ==
    /\ rt[r].pc = "sleep"
    /\ LET xTimeToWake ==
                rt[r].start + pdMS_TO_TICKS(rt[r].config.period_ms)
       IN  rt' = [rt EXCEPT ![r].pc = "start",
                            ![r].start = xTimeToWake,
                            ![r].overran = xTickCount > xTimeToWake]
    /\ UNCHANGED <<spawn_of, spawn_failed, live_configs>>
    /\ UNCHANGED <<mainVars, regVars, lockVars, stopVars, rxVars>>
    /\ UNCHANGED timeVars

\* ------------------------------------------------------------------------
\* task_manager_stop_all, called once task_manager_parse_and_create returned
\* ------------------------------------------------------------------------
\* mutant: the loop starts at the second handle
StopAllCall_FromOne ==
    /\ stopPc \in {"idle", "done"}
    /\ mainPc \in {"returned", "token", "token_write", "done"}
    /\ stop_i' = 1
    /\ stopPc' = "loop"
    /\ UNCHANGED <<mainVars, regVars, taskVars, lockVars, rxVars>>
    /\ UNCHANGED timeVars

\* entry: i = 0
StopAllCall ==
    /\ stopPc \in {"idle", "done"}
    /\ mainPc \in {"returned", "token", "token_write", "done"}
    /\ stop_i' = 0
    /\ stopPc' = "loop"
    /\ UNCHANGED <<mainVars, regVars, taskVars, lockVars, rxVars>>
    /\ UNCHANGED timeVars

\* what a read of task_handles[i] past the array can yield: the memory
\* after the array is not the registry's, so the value is NULL or one of
\* the handles xTaskCreate stored past the array, if still live
OutOfBoundsHandles == {NULL} \cup {r \in oob_handle : rt[r].pc # "deleted"}

\* one turn of the loop: vTaskDelete(task_handles[i]); task_handles[i] = NULL.
\* vTaskDelete removes the routine wherever it is; nothing it holds is given
\* back and its task_config_t is not freed
StopAllStep ==
    /\ stopPc = "loop"
    /\ stop_i < active_task_count
    /\ IF stop_i < MAX_TASKS
         THEN IF task_handles[stop_i] # NULL
                THEN /\ rt' = [rt EXCEPT
                                ![task_handles[stop_i]].pc = "deleted"]
                     /\ task_handles' = [task_handles EXCEPT ![stop_i] = NULL]
                ELSE UNCHANGED <<rt, task_handles>>
         ELSE /\ \E victim \in OutOfBoundsHandles :
                    rt' = IF victim = NULL THEN rt
                          ELSE [rt EXCEPT ![victim].pc = "deleted"]
              /\ UNCHANGED task_handles
    /\ stop_i' = stop_i + 1
    /\ UNCHANGED <<active_task_count, oob_handle, stopPc>>
    /\ UNCHANGED <<spawn_of, spawn_failed, live_configs>>
    /\ UNCHANGED <<mainVars, lockVars, rxVars>>
    /\ UNCHANGED timeVars

\* after the loop: active_task_count = 0
StopAllReturn ==
    /\ stopPc = "loop"
    /\ stop_i >= active_task_count
    /\ active_task_count' = 0
    /\ stopPc' = "done"
    /\ UNCHANGED <<task_handles, oob_handle, stop_i>>
    /\ UNCHANGED <<mainVars, taskVars, lockVars, rxVars>>
    /\ UNCHANGED timeVars

\* ------------------------------------------------------------------------
\* Initial states
\* ------------------------------------------------------------------------
\* the state after task_manager_init, uart_read_json_config having returned
\* one of docs
InitWith(docs, mpu) ==
    /\ json_config \in docs
    /\ mainPc = "config"
    /\ loop_i = 0
    /\ task_count = 0
    /\ ret = 0
    /\ status = ""
    /\ tx = <<>>
    /\ task_handles = [k \in 0 .. MAX_TASKS - 1 |-> NULL]
    /\ active_task_count = 0
    /\ oob_handle = {}
    /\ rt = <<>>
    /\ spawn_of = <<>>
    /\ spawn_failed = {}
    /\ live_configs = {}
    /\ mutex = [m \in Mutexes |-> NULL]
    /\ s_mpu_inited \in mpu
    /\ pins_inited = FALSE
    /\ stopPc = "idle"
    /\ stop_i = 0
    /\ rxPc = "returned"
    /\ rx_dropped = FALSE
    /\ started = FALSE
    /\ total_len = 0
    /\ config_buffer = <<>>
    /\ buf_hi = -1
    /\ data_hi = -1
    /\ rx_chunks = <<>>
    /\ rx_ret = [null |-> FALSE, bytes |-> <<>>]
    /\ xTickCount = 0

\* sensor lists of the concurrent specification
ConcSensorLists ==
    {<<"dht11">>, <<"ultrasonic", "dht11">>, <<"bogus", "mpu6050">>}

ConcRecords(k) ==
    {TaskRecord(NameAt(k), s, RequiredFields) : s \in ConcSensorLists}
        \cup {TaskRecord(NameAt(k), <<>>, RequiredFields \ {"sensors"})}

ConcDocs ==
    FailureDocs
        \cup {TasksDoc(<<>>)}
        \cup {TasksDoc(<<a>>) : a \in ConcRecords(1)}
        \cup {TasksDoc(<<a, b>>) : a \in ConcRecords(1), b \in ConcRecords(2)}

Init == InitWith(ConcDocs, BOOLEAN)

\* app_main and task_manager_parse_and_create
AppMain ==
    \/ AppMainNoConfig
    \/ ParseError
    \/ InvalidTasksArray
    \/ ParseBegin
    \/ RecordMallocFail
    \/ RecordMissingField
    \/ RecordSpawn
    \/ RecordSpawnFail
    \/ ParseReturn
    \/ AppMainCheck
    \/ TokenWriteBegin
    \/ TokenWriteEnd

Next ==
    \/ AppMain
    \/ \E r \in Tasks : TaskStart(r)
    \/ \E r \in Tasks : TaskSlot(r)
    \/ \E r \in Tasks : SampleTake(r)
    \/ \E r \in Tasks :
        \E res \in ReadsOf(r, NominalDht, NominalDist, NominalAccel) :
            SampleRead(r, res)
    \/ \E r \in Tasks : SampleDelay(r)
    \/ \E r \in Tasks : ReaderReturn(r)
    \/ \E r \in Tasks : LogTake(r)
    \/ \E r \in Tasks : LogWriteEnd(r)
    \/ \E r \in Tasks : TaskWake(r)
    \/ StopAllCall
    \/ StopAllStep
    \/ StopAllReturn

Spec == Init /\ [][Next]_vars

\* ------------------------------------------------------------------------
\* Claims about the concurrent specification (Spec)
\* ------------------------------------------------------------------------
SensorKinds == {SENSOR_DHT11, SENSOR_ULTRASONIC, SENSOR_MPU6050}

\* the routines inside the single-shot read of sensor kind k
InRead(k) == {r \in Tasks : rt[r].pc = "read" /\ KindOf(r) = k}

\* C1: in every reachable state at most one routine is inside the
\* single-shot read of a given sensor kind (DHT11, ultrasonic, MPU6050).
C1_SensorMutualExclusion ==
    \A k \in SensorKinds : Cardinality(InRead(k)) <= 1

\* a routine is inside the read of a sensor while another one waits for the
\* same sensor's lock
C1_Witness ==
    \E r1 \in Tasks, r2 \in Tasks :
        /\ r1 # r2
        /\ rt[r1].pc = "read"
        /\ rt[r2].pc = "take"
        /\ KindOf(r1) = KindOf(r2)

\* the mutexes whose holder has been deleted
LeakedMutexes ==
    {m \in Mutexes : mutex[m] # NULL /\ rt[mutex[m]].pc = "deleted"}

\* C2: after task_manager_stop_all has returned, none of the four locks is
\* held by a terminated routine.
C2_StopAllReleasesLocks == stopPc = "done" => LeakedMutexes = {}

\* C3: after task_manager_stop_all has returned the active count is 0 and
\* every spawned routine is terminated; a terminated routine stays
\* terminated and never again acquires the log sink.
C3_StopAllSilencesRoutines ==
    /\ [](stopPc = "done" =>
            /\ active_task_count = 0
            /\ \A r \in Tasks : rt[r].pc = "deleted")
    /\ [][\A r \in Tasks :
            rt[r].pc = "deleted" =>
                /\ rt'[r].pc = "deleted"
                /\ (mutex'["uart_mutex"] = r => mutex["uart_mutex"] = r)]_vars

\* stop_all has returned after two routines were spawned, one of them
\* cancelled while it was writing its line
C3_Witness ==
    /\ stopPc = "done"
    /\ Len(rt) = 2
    /\ mutex["uart_mutex"] # NULL

\* who is inside uart_write_bytes: routines in uart_log, 0 for app_main
Writers ==
    {r \in Tasks : rt[r].pc = "write"}
        \cup (IF mainPc = "token_write" THEN {0} ELSE {})

\* C4: at most one routine is in the middle of writing to the output
\* channel, the boot routine's status token included.
C4_WritesNeverInterleave == Cardinality(Writers) <= 1

\* ------------------------------------------------------------------------
\* The boot specification: app_main alone, on larger payloads
\* ------------------------------------------------------------------------
SmallSensorLists ==
    {<<>>, <<"dht11">>, <<"bogus", "ultrasonic", "mpu6050", "dht11">>}

\* the records a mixed payload may hold at position k: well-formed ones, and
\* ones with one required field missing
SmallRecords(k) ==
    {TaskRecord(NameAt(k), s, RequiredFields) : s \in SmallSensorLists}
        \cup {TaskRecord(NameAt(k), <<"dht11">>, RequiredFields \ {f}) :
                f \in RequiredFields}

\* every tasks array of at most SmallLen records
SmallDocs ==
    UNION {{TasksDoc(t) :
                t \in {f \in [1 .. n -> UNION {SmallRecords(k) : k \in 1 .. n}] :
                        \A k \in 1 .. n : f[k] \in SmallRecords(k)}} :
           n \in 0 .. SmallLen}

\* tasks arrays of MAX_TASKS to MaxRecords records, all well-formed but
\* possibly the one at position bad: the first, the last one processed or
\* the last one of the array
LongDocs ==
    {TasksDoc([k \in 1 .. n |->
                TaskRecord(NameAt(k), <<"dht11">>,
                           IF k = bad THEN RequiredFields \ {"name"}
                                      ELSE RequiredFields)]) :
        n \in MAX_TASKS .. MaxRecords, bad \in {0, 1, MAX_TASKS, MaxRecords}}

BootDocs == FailureDocs \cup SmallDocs \cup LongDocs

InitBoot == InitWith(BootDocs, {TRUE})

NextBoot ==
    \/ AppMainNoConfig
    \/ ParseError
    \/ InvalidTasksArray
    \/ ParseBegin
    \/ RecordMallocFail
    \/ RecordMissingField
    \/ RecordSpawn
    \/ RecordSpawnFail
    \/ ParseReturn
    \/ AppMainCheck
    \/ TokenWriteBegin
    \/ TokenWriteEnd

SpecBoot == InitBoot /\ [][NextBoot]_vars

\* ------------------------------------------------------------------------
\* Claims about the boot specification (SpecBoot)
\* ------------------------------------------------------------------------
\* task_manager_parse_and_create has returned to app_main
ParseReturned == mainPc \in {"returned", "token", "token_write", "done"}

\* the records of the tasks array
Records == json_config.tasks

\* a record with the four required fields
WellFormed(rec) ==
    /\ "name" \in rec.has
    /\ "priority" \in rec.has
    /\ "period_ms" \in rec.has
    /\ "sensors" \in rec.has

\* C5: after the transport completes the boot routine writes exactly one
\* status token: TASKS_CREATED when at least one routine was spawned, ERROR
\* otherwise, and then no routine exists.
C5_ExactlyOneStatusToken ==
    /\ Len(tx) <= 1
    /\ mainPc \in {"token_write", "done"} =>
        /\ Len(tx) = 1
        /\ tx[1] = (IF Len(rt) >= 1 THEN "TASKS_CREATED\n" ELSE "ERROR\n")
        /\ json_config.kind # "tasks" => Len(rt) = 0

\* app_main is done with ERROR although the tasks array held records: every
\* creation failed
C5_Witness ==
    /\ mainPc = "done"
    /\ json_config.kind = "tasks"
    /\ Len(Records) >= 1
    /\ \A k \in 1 .. Len(Records) : WellFormed(Records[k])
    /\ tx = <<"ERROR\n">>

\* C6: K well-formed records, every creation succeeding, yield exactly
\* min(K, MAX_TASKS) task specs and routines, built from the first records
\* of the array in order.
C6_CompilesFirstRecords ==
    (/\ ParseReturned
     /\ json_config.kind = "tasks"
     /\ \A k \in 1 .. Len(Records) : WellFormed(Records[k])
     /\ spawn_failed = {})
    => /\ Len(rt) = Min(Len(Records), 32)
       /\ ret = Len(rt)
       /\ live_configs = 1 .. Len(rt)
       /\ \A j \in 1 .. Len(rt) :
            /\ spawn_of[j] = j
            /\ rt[j].config.name = Records[j].name

\* a payload of more than MAX_TASKS well-formed records has been compiled
C6_Witness ==
    /\ ParseReturned
    /\ Len(Records) > 32
    /\ \A k \in 1 .. Len(Records) : WellFormed(Records[k])
    /\ Len(rt) = 32

\* the records the routines were built from
SpawnedRecords == Range(spawn_of)

\* C7 as stated: a record missing a required field yields no routine, and
\* every well-formed record of the payload yields one (creations succeeding).
C7_EveryOtherRecordSpawned ==
    (ParseReturned /\ json_config.kind = "tasks" /\ spawn_failed = {})
    => SpawnedRecords = {k \in 1 .. Len(Records) : WellFormed(Records[k])}

\* C7 amended: a record missing a required field yields no routine, and
\* every well-formed record among the first MAX_TASKS records of the array
\* yields one, in array order, when its creation succeeds.
C7_EveryOtherProcessedRecordSpawned ==
    (ParseReturned /\ json_config.kind = "tasks")
    => /\ SpawnedRecords =
            {k \in 1 .. Min(Len(Records), 32) :
                WellFormed(Records[k]) /\ k \notin spawn_failed}
       /\ \A a \in 1 .. Len(spawn_of), b \in 1 .. Len(spawn_of) :
            a < b => spawn_of[a] < spawn_of[b]
       /\ \A j \in 1 .. Len(rt) :
            rt[j].config.name = Records[spawn_of[j]].name

\* a payload whose first record lacks a field and whose second is
\* well-formed has been compiled: one routine, built from the second
C7_Witness ==
    /\ ParseReturned
    /\ Len(Records) = 2
    /\ ~WellFormed(Records[1])
    /\ WellFormed(Records[2])
    /\ spawn_of = <<2>>

\* ------------------------------------------------------------------------
\* uart_read_json_config
\* ------------------------------------------------------------------------
START == <<"S", "T", "A", "R", "T">>

END == <<"E", "N", "D">>

\* strstr(haystack, needle) != NULL, on text without NUL bytes
Contains(haystack, needle) ==
    \E k \in 1 .. Len(haystack) - Len(needle) + 1 :
        SubSeq(haystack, k, k + Len(needle) - 1) = needle

\* mutant: the room for the terminator is not kept
Fits_NoTerminator(total, len) == total + len <= UART_BUF_SIZE

\* total_len + len < UART_BUF_SIZE - 1
Fits(total, len) == total + len < UART_BUF_SIZE - 1

Max(a, b) == IF a > b THEN a ELSE b

\* malloc(UART_BUF_SIZE) succeeded; total_len = 0, started = false
RxEnter ==
    /\ rxPc = "entry"
    /\ rxPc' = "loop"
    /\ UNCHANGED <<started, total_len, config_buffer, buf_hi, data_hi,
                   rx_chunks, rx_dropped, rx_ret>>
    /\ UNCHANGED <<mainVars, regVars, taskVars, lockVars, stopVars>>
    /\ UNCHANGED timeVars

\* malloc(UART_BUF_SIZE) failed: return NULL
RxMallocFail ==
    /\ rxPc = "entry"
    /\ rxPc' = "returned"
    /\ rx_ret' = [null |-> TRUE, bytes |-> <<>>]
    /\ UNCHANGED <<started, total_len, config_buffer, buf_hi, data_hi,
                   rx_chunks, rx_dropped>>
    /\ UNCHANGED <<mainVars, regVars, taskVars, lockVars, stopVars>>
    /\ UNCHANGED timeVars

\* mutant: started is not latched
AwaitingStartStep_NoLatch(data) ==
    /\ ~started
    /\ IF Contains(data, START)
         THEN tx' = Append(tx, "READY\n")
         ELSE UNCHANGED tx
    /\ UNCHANGED <<started, rxPc, total_len, config_buffer, buf_hi, rx_dropped>>

\* if (!started) { if (strstr(data, "START")) { write READY; started = true; }
\* continue; }
AwaitingStartStep(data) ==
    /\ ~started
    /\ IF Contains(data, START)
         THEN /\ tx' = Append(tx, "READY\n")
              /\ started' = TRUE
         ELSE UNCHANGED <<tx, started>>
    /\ UNCHANGED <<rxPc, total_len, config_buffer, buf_hi, rx_dropped>>

\* started: a chunk holding END ends the loop; any other chunk is appended
\* when it fits, with the terminator behind it, and dropped when it does not
ReceivingStep(data) ==
    /\ started
    /\ IF Contains(data, END)
         THEN /\ rxPc' = "complete"
              /\ UNCHANGED <<total_len, config_buffer, buf_hi, rx_dropped>>
         ELSE IF Fits(total_len, Len(data))
           THEN /\ config_buffer' = config_buffer \o data
                /\ total_len' = total_len + Len(data)
                /\ buf_hi' = Max(buf_hi, total_len + Len(data))
                /\ UNCHANGED <<rxPc, rx_dropped>>
           ELSE /\ rx_dropped' = TRUE
                /\ UNCHANGED <<rxPc, total_len, config_buffer, buf_hi>>
    /\ UNCHANGED <<tx, started>>

\* one turn of the while loop on a chunk of len > 0 bytes:
\* data[len] = '\0', then the protocol step
RxLoopIteration(data) ==
    /\ rxPc = "loop"
    /\ Len(data) \in 1 .. DATA_SIZE - 1
    /\ data_hi' = Max(data_hi, Len(data))
    /\ \/ AwaitingStartStep(data)
       \/ ReceivingStep(data)
    /\ UNCHANGED <<json_config, mainPc, loop_i, task_count, ret, status>>
    /\ UNCHANGED <<rx_ret, regVars, taskVars, lockVars, stopVars>>
    /\ UNCHANGED timeVars

\* after the loop: the buffer when total_len > 0, else free it, return NULL
RxReturn ==
    /\ rxPc = "complete"
    /\ rxPc' = "returned"
    /\ rx_ret' = IF total_len > 0
                    THEN [null |-> FALSE, bytes |-> config_buffer]
                    ELSE [null |-> TRUE, bytes |-> <<>>]
    /\ UNCHANGED <<started, total_len, config_buffer, buf_hi, data_hi,
                   rx_chunks, rx_dropped>>
    /\ UNCHANGED <<mainVars, regVars, taskVars, lockVars, stopVars>>
    /\ UNCHANGED timeVars

\* the state at the call of uart_read_json_config
InitRx ==
    /\ json_config = [kind |-> "null", tasks |-> <<>>]
    /\ mainPc = "rx"
    /\ loop_i = 0
    /\ task_count = 0
    /\ ret = 0
    /\ status = ""
    /\ tx = <<>>
    /\ task_handles = [k \in 0 .. MAX_TASKS - 1 |-> NULL]
    /\ active_task_count = 0
    /\ oob_handle = {}
    /\ rt = <<>>
    /\ spawn_of = <<>>
    /\ spawn_failed = {}
    /\ live_configs = {}
    /\ mutex = [m \in Mutexes |-> NULL]
    /\ s_mpu_inited = TRUE
    /\ pins_inited = FALSE
    /\ stopPc = "idle"
    /\ stop_i = 0
    /\ rxPc = "entry"
    /\ started = FALSE
    /\ total_len = 0
    /\ config_buffer = <<>>
    /\ buf_hi = -1
    /\ data_hi = -1
    /\ rx_chunks = <<>>
    /\ rx_dropped = FALSE
    /\ rx_ret = [null |-> FALSE, bytes |-> <<>>]
    /\ xTickCount = 0

\* the chunks the host side delivers in SpecRx: markers alone, markers with
\* payload bytes in the same chunk, markers split over two chunks, payload
RxChunks ==
    {START, END, <<"x">>, <<"y">>,
     START \o <<"x">>, <<"y">> \o END,
     <<"E", "N">>, <<"D">>}

\* a chunk of RxChunks is received (at most MaxChunks of them)
RxChunk ==
    \E data \in RxChunks :
        /\ Len(rx_chunks) < MaxChunks
        /\ RxLoopIteration(data)
        /\ rx_chunks' = Append(rx_chunks, data)

NextRx ==
    \/ RxEnter
    \/ RxMallocFail
    \/ RxChunk
    \/ RxReturn

SpecRx == InitRx /\ [][NextRx]_vars

\* the lengths of the payload chunks of SpecFill
FillLens == {1, 2, 64, 126, 127}

\* a chunk of n payload bytes
Filler(n) == SubSeq([k \in 1 .. n |-> "x"], 1, n)

FillChunks == {Filler(n) : n \in FillLens} \cup {START, END}

\* a chunk of FillChunks is received; the host sends START once
RxFillChunk ==
    \E data \in FillChunks :
        /\ data = START => ~started
        /\ RxLoopIteration(data)
        /\ UNCHANGED rx_chunks

NextFill ==
    \/ RxEnter
    \/ RxMallocFail
    \/ RxFillChunk
    \/ RxReturn

SpecFill == InitRx /\ [][NextFill]_vars

\* ------------------------------------------------------------------------
\* Claims about the config transport (SpecRx, SpecFill)
\* ------------------------------------------------------------------------
RECURSIVE Concat(_)
Concat(ss) == IF ss = <<>> THEN <<>> ELSE Head(ss) \o Concat(Tail(ss))

\* the bytes received so far
Stream == Concat(rx_chunks)

\* the first position at or after from where pat occurs in s, 0 when none
FirstIndex(s, pat, from) ==
    LET hits == {k \in from .. Len(s) - Len(pat) + 1 :
                    SubSeq(s, k, k + Len(pat) - 1) = pat}
    IN  IF hits = {} THEN 0 ELSE CHOOSE k \in hits : \A j \in hits : k <= j

\* the bytes of s after the start marker and before the end marker
FramedPayload(s) ==
    LET a == FirstIndex(s, START, 1)
        b == IF a = 0 THEN 0 ELSE FirstIndex(s, END, a + Len(START))
    IN  IF b = 0 THEN <<>> ELSE SubSeq(s, a + Len(START), b - 1)

\* C8: the payload the transport returns is the sequence of bytes received
\* after the start marker and before the end marker, in order, up to the
\* capacity of the buffer, however the bytes are split into chunks.
C8_PayloadIsFramedBytes ==
    (rxPc = "returned" /\ started)
    => rx_ret.bytes =
        SubSeq(FramedPayload(Stream), 1,
               Min(Len(FramedPayload(Stream)), UART_BUF_SIZE - 1))

\* the protocol state of the transport
RxState ==
    IF ~started THEN "AwaitingStart"
    ELSE IF rxPc = "loop" THEN "Receiving" ELSE "Complete"

ReadyCount == Cardinality({k \in DOMAIN tx : tx[k] = "READY\n"})

\* the received chunks that contain the start marker
StartChunks == {k \in DOMAIN rx_chunks : Contains(rx_chunks[k], START)}

\* C9: the transport goes AwaitingStart, Receiving, Complete in that order;
\* READY is written exactly once, on the first chunk that contains the start
\* marker; before that chunk nothing is accumulated and no end marker ends
\* the transport.
C9_StartThenReceiveThenComplete ==
    /\ [](/\ started <=> StartChunks # {}
          /\ ReadyCount = (IF started THEN 1 ELSE 0)
          /\ ~started => /\ total_len = 0
                         /\ config_buffer = <<>>
                         /\ rxPc # "complete"
                         /\ rx_ret.bytes = <<>>)
    /\ [][/\ <<RxState, RxState'>> \in
                {<<"AwaitingStart", "AwaitingStart">>,
                 <<"AwaitingStart", "Receiving">>,
                 <<"Receiving", "Receiving">>,
                 <<"Receiving", "Complete">>,
                 <<"Complete", "Complete">>}
           /\ ReadyCount' # ReadyCount =>
                /\ RxState = "AwaitingStart"
                /\ RxState' = "Receiving"
                /\ StartChunks' = {Len(rx_chunks')}]_vars

\* the transport returned after an end marker that came before the start
\* marker, and after a second chunk holding the start marker
C9_Witness ==
    /\ rxPc = "returned"
    /\ started
    /\ Len(rx_chunks) >= 1
    /\ Contains(rx_chunks[1], END)
    /\ Cardinality(StartChunks) >= 2

\* C10: total_len never exceeds the capacity minus the terminator, no write
\* lands outside config_buffer or data, and a chunk that does not fit is
\* dropped: the loop goes on with the buffer as it was.
C10_BufferNeverOverflows ==
    /\ [](/\ total_len <= UART_BUF_SIZE - 1
          /\ Len(config_buffer) = total_len
          /\ buf_hi <= UART_BUF_SIZE - 1
          /\ data_hi <= DATA_SIZE - 1)
    /\ [][(rx_dropped' /\ ~rx_dropped) =>
            /\ rxPc' = "loop"
            /\ total_len' = total_len
            /\ config_buffer' = config_buffer]_vars

\* the transport returned a full buffer after dropping a chunk
C10_Witness ==
    /\ rxPc = "returned"
    /\ rx_dropped
    /\ total_len = UART_BUF_SIZE - 2
    /\ ~rx_ret.null

\* ---------------------------------------------------------------------
\* C13: a record whose sensor list has L entries yields a task spec with
\* sensor_count = min(L, 3) whose slots hold the kinds of the first
\* min(L, 3) entries in order; a longer list never rejects the record.
\* ---------------------------------------------------------------------
KindOfId(id) ==
    CASE id = "dht11" -> SENSOR_DHT11
      [] id = "ultrasonic" -> SENSOR_ULTRASONIC
      [] id = "mpu6050" -> SENSOR_MPU6050
      [] OTHER -> SENSOR_NONE

C13_SensorListTruncated ==
    /\ \A j \in Tasks :
        LET rec == Records[spawn_of[j]]
            L == Len(rec.sensors)
            config == rt[j].config
        IN  /\ config.sensor_count = Min(L, MAX_SENSORS_PER_TASK)
            /\ \A k \in 0 .. Min(L, MAX_SENSORS_PER_TASK) - 1 :
                 config.sensors[k] = KindOfId(rec.sensors[k + 1])
    /\ (ParseReturned /\ json_config.kind = "tasks") =>
        \A k \in 1 .. Min(Len(Records), MAX_TASKS) :
            (WellFormed(Records[k]) /\ k \notin spawn_failed)
                => k \in SpawnedRecords

C13_Witness ==
    \E j \in Tasks :
        /\ Len(Records[spawn_of[j]].sensors) = MAX_SENSORS_PER_TASK + 1
        /\ rt[j].config.sensor_count = MAX_SENSORS_PER_TASK
        /\ rt[j].config.sensors = [k \in 0 .. 2 |->
                KindOfId(Records[spawn_of[j]].sensors[k + 1])]

\* ---------------------------------------------------------------------
\* C19: when starting a routine fails the registry (handles and count) is
\* left as it was for that record, the later records are still attempted,
\* and the value returned is the final active count, which is the number
\* of routines actually started.
\* ---------------------------------------------------------------------
C19_SpawnFailureLeavesRegistry ==
    /\ [][spawn_failed' # spawn_failed =>
            /\ regVars' = regVars
            /\ rt' = rt
            /\ mainPc' = "loop"
            /\ loop_i' = loop_i + 1]_vars
    /\ []((ParseReturned /\ json_config.kind = "tasks") =>
            /\ loop_i = task_count
            /\ ret = active_task_count
            /\ ret = Len(rt)
            /\ \A f \in spawn_failed :
                 \A k \in f + 1 .. task_count :
                    (WellFormed(Records[k]) /\ k \notin spawn_failed)
                        => k \in SpawnedRecords)

C19_Witness ==
    /\ ParseReturned
    /\ \E f \in spawn_failed :
        /\ WellFormed(Records[f])
        /\ \E k \in SpawnedRecords : k > f
    /\ ret = Len(rt)
    /\ ret > 0

\* ---------------------------------------------------------------------
\* C20: a task spec stays allocated while its routine lives, and after
\* stop_all no task spec of a terminated routine remains allocated.
\* ---------------------------------------------------------------------
C20_TaskSpecFreedWithRoutine ==
    /\ \A r \in Tasks : rt[r].pc # "deleted" => r \in live_configs
    /\ stopPc = "done" =>
        \A r \in Tasks : rt[r].pc = "deleted" => r \notin live_configs

\* ---------------------------------------------------------------------
\* C16: at every inter-sample delay and at the fixed-rate sleep a routine
\* holds no sensor lock and no log lock; a sensor lock is held only inside
\* one single-shot read of that sensor, the log lock only inside the write.
\* ---------------------------------------------------------------------
Held(r) == {m \in Mutexes : mutex[m] = r}

C16_NoLockAcrossDelay ==
    \A r \in Tasks :
        /\ rt[r].pc \in {"delay", "sleep"} => Held(r) = {}
        /\ rt[r].pc \in {"start", "slot", "take", "ret", "log"}
                => Held(r) = {}
        /\ rt[r].pc = "read" => Held(r) = {MutexOf(KindOf(r))}
        /\ rt[r].pc = "write" => Held(r) = {"uart_mutex"}

C16_Witness ==
    /\ \E r \in Tasks : rt[r].pc = "delay" /\ Len(rt[r].samples) >= 1
    /\ \E q \in Tasks : rt[q].pc = "sleep" /\ rt[q].lines = 1

\* ------------------------------------------------------------------------
\* The polling cycle of one routine, with varied sensor values (SpecCycle)
\* ------------------------------------------------------------------------
CycleSensorLists ==
    {<<"dht11", "bogus", "ultrasonic">>, <<"mpu6050", "dht11">>,
     <<"bogus">>, <<"ultrasonic", "mpu6050">>}

CycleDocs ==
    {TasksDoc(<<TaskRecord(NameAt(1), s, RequiredFields)>>) :
        s \in CycleSensorLists}

\* tenths of % and of C; cm; thousandths of a g
CycleDht == {<<400, 200>>, <<455, 215>>}

CycleDist == {0, 7, 10}

CycleAccel == {0, 12}

InitCycle == InitWith(CycleDocs, BOOLEAN)

NextCycle ==
    \/ ParseBegin
    \/ RecordSpawn
    \/ ParseReturn
    \/ AppMainCheck
    \/ TokenWriteBegin
    \/ TokenWriteEnd
    \/ \E r \in Tasks : TaskStart(r)
    \/ \E r \in Tasks : TaskSlot(r)
    \/ \E r \in Tasks : SampleTake(r)
    \/ \E r \in Tasks :
        \E res \in ReadsOf(r, CycleDht, CycleDist, CycleAccel) :
            SampleRead(r, res)
    \/ \E r \in Tasks : SampleDelay(r)
    \/ \E r \in Tasks : ReaderReturn(r)
    \/ \E r \in Tasks : LogTake(r)
    \/ \E r \in Tasks : LogWriteEnd(r)
    \/ \E r \in Tasks : TaskWake(r)

SpecCycle == InitCycle /\ [][NextCycle]_vars

\* ---------------------------------------------------------------------
\* C11: an averaged reader called with N >= 1 samples, M of whose
\* single-shot reads succeeded, returns success with the arithmetic mean of
\* exactly those M values when M >= 1, and fails (-1) when M = 0.
\* ---------------------------------------------------------------------
\* a single-shot read that succeeded: ESP_OK from the driver, a distance
\* rather than -1 from get_ultrasonic_data
Succeeded(kind, res) ==
    IF kind = SENSOR_ULTRASONIC THEN res.dist # -1 ELSE res.err = "ESP_OK"

RECURSIVE SumField(_, _)
SumField(seq, f) ==
    IF seq = <<>> THEN 0 ELSE Head(seq)[f] + SumField(Tail(seq), f)

\* the mean of field f over the samples, as the fraction of f's unit
MeanOf(seq, f, unit) == Frac(SumField(seq, f), unit * Len(seq))

ReaderReturns(r) == rt[r].pc = "ret" /\ rt'[r].pc = "slot"

C11_MeanOfSuccessfulSamples ==
    [][\A r \in Tasks : ReaderReturns(r) =>
        LET kind == KindOf(r)
            good == SelectSeq(rt[r].samples, LAMBDA x : Succeeded(kind, x))
            out == rt'[r].readings
        IN  /\ Len(rt[r].samples) = NumSamples
            /\ Len(good) = 0 =>
                (rt[r].i \in rt'[r].failed /\ out = rt[r].readings)
            /\ Len(good) >= 1 =>
                /\ rt[r].i \notin rt'[r].failed
                /\ kind = SENSOR_DHT11 =>
                    /\ out.dht_humidity = MeanOf(good, "humidity", 10)
                    /\ out.dht_temperature = MeanOf(good, "temperature", 10)
                /\ kind = SENSOR_ULTRASONIC =>
                    out.ultrasonic_distance
                        = SumField(good, "dist") \div Len(good)
                /\ kind = SENSOR_MPU6050 =>
                    /\ out.mpu_accel_x = MeanOf(good, "x", 1000)
                    /\ out.mpu_accel_y = MeanOf(good, "y", 1000)
                    /\ out.mpu_accel_z = MeanOf(good, "z", 1000)]_vars

\* ---------------------------------------------------------------------
\* C12: an unrecognized sensor identifier compiles to SENSOR_NONE; it
\* occupies one slot, and polling that slot calls no sampler, changes no
\* field of the readings and never marks the cycle as failed.
\* ---------------------------------------------------------------------
Recognized == {"dht11", "ultrasonic", "mpu6050"}

\* the slots of routine r compiled from unrecognized identifiers
UnknownSlots(r) ==
    {k \in 0 .. rt[r].config.sensor_count - 1 :
        Records[spawn_of[r]].sensors[k + 1] \notin Recognized}

C12_UnknownSensorIsNoOp ==
    /\ [](\A r \in Tasks :
            /\ rt[r].config.sensor_count
                = Min(Len(Records[spawn_of[r]].sensors), MAX_SENSORS_PER_TASK)
            /\ \A k \in UnknownSlots(r) :
                /\ rt[r].config.sensors[k] = SENSOR_NONE
                /\ k \notin Range(rt[r].attempted)
                /\ k \notin rt[r].failed)
    /\ [][\A r \in Tasks :
            (rt[r].pc = "slot" /\ rt[r].i \in UnknownSlots(r)
                /\ rt'[r] # rt[r] /\ rt'[r].pc # "deleted")
            => /\ rt'[r] = [rt[r] EXCEPT !.i = @ + 1]
               /\ mutex' = mutex]_vars

C12_Witness ==
    \E r \in Tasks :
        /\ rt[r].config.sensor_count = 3
        /\ 1 \in UnknownSlots(r)
        /\ rt[r].pc = "sleep"
        /\ rt[r].attempted = <<0, 2>>
        /\ rt[r].success = 1
        /\ rt[r].readings.ultrasonic_distance > 0

\* ---------------------------------------------------------------------
\* C15: on a cycle in which a sampler failed, the line handed to the log
\* sink is the error line naming the task, "[<name>] Read error".
\* ---------------------------------------------------------------------
C15_ErrorLineNamesTask ==
    \A r \in Tasks :
        (rt[r].pc = "write" /\ rt[r].failed # {}) =>
            /\ rt[r].line.tag = <<rt[r].config.name>>
            /\ rt[r].line.text = "Read error\n"

\* ---------------------------------------------------------------------
\* C18: a routine hands exactly one line to the log sink per poll cycle,
\* after all its sensor slots were attempted in list order: the
\* measurement line if every sampler succeeded, the error line if one
\* failed; a failed slot does not keep later slots from being attempted.
\* ---------------------------------------------------------------------
\* the slots of r below index n that call a sampler, in list order
SamplerSlots(r, n) ==
    SelectSeq([k \in 1 .. n |-> k - 1],
              LAMBDA k : rt[r].config.sensors[k] # SENSOR_NONE)

C18_OneLinePerCycle ==
    \A r \in Tasks :
        /\ rt[r].pc \in {"slot", "log"}
            => /\ rt[r].lines = 0
               /\ rt[r].attempted = SamplerSlots(r, rt[r].i)
        /\ rt[r].pc \in {"take", "read", "delay", "ret"}
            => /\ rt[r].lines = 0
               /\ rt[r].attempted = SamplerSlots(r, rt[r].i + 1)
        /\ rt[r].pc = "log" => rt[r].i = rt[r].config.sensor_count
        /\ rt[r].pc \in {"write", "sleep"}
            => /\ rt[r].lines = 1
               /\ rt[r].attempted = SamplerSlots(r, rt[r].config.sensor_count)
        /\ rt[r].pc = "write"
            => /\ rt[r].failed = {} =>
                    /\ rt[r].line.tag = <<rt[r].config.name>>
                    /\ Len(rt[r].line.fields) = 6
               /\ rt[r].failed # {} =>
                    /\ rt[r].line.text = "Read error\n"
                    /\ rt[r].line.fields = <<>>

C18_Witness ==
    \E r \in Tasks :
        /\ rt[r].pc = "write"
        /\ rt[r].failed = {0}
        /\ rt[r].attempted = <<0, 1>>
        /\ rt[r].lines = 1
        /\ rt[r].readings.dht_humidity # <<0, 1>>

\* ------------------------------------------------------------------------
\* A client calling task_manager_parse_and_create and task_manager_stop_all
\* repeatedly (SpecCalls); the routines themselves are left at their entry
\* ------------------------------------------------------------------------
MaxRoutines == 34

CallRecords(n, has) ==
    [k \in 1 .. n |-> TaskRecord(NameAt(k), <<"dht11">>, has)]

\* a full array, a single record, and a single record without priority
CallDocs ==
    {TasksDoc(CallRecords(MAX_TASKS, RequiredFields)),
     TasksDoc(CallRecords(1, RequiredFields)),
     TasksDoc(CallRecords(1, RequiredFields \ {"priority"}))}

\* task_manager_parse_and_create is called again, once the previous call
\* returned and no task_manager_stop_all is running
ParseAndCreateAgain ==
    /\ mainPc = "returned"
    /\ stopPc \in {"idle", "done"}
    /\ \E doc \in CallDocs :
        /\ Len(rt) + Len(doc.tasks) <= MaxRoutines
        /\ json_config' = doc
    /\ mainPc' = "config"
    /\ UNCHANGED <<loop_i, task_count, ret, status, tx>>
    /\ UNCHANGED <<regVars, taskVars, lockVars, stopVars, rxVars>>
    /\ UNCHANGED timeVars

InitCalls == InitWith(CallDocs, {TRUE})

NextCalls ==
    \/ ParseBegin
    \/ RecordMissingField
    \/ RecordSpawn
    \/ ParseReturn
    \/ ParseAndCreateAgain
    \/ StopAllCall
    \/ StopAllStep
    \/ StopAllReturn

SpecCalls == InitCalls /\ [][NextCalls]_vars

\* ---------------------------------------------------------------------
\* C14: after any sequence of calls to task_manager_parse_and_create and
\* task_manager_stop_all the active count is within 0 .. 32 and every
\* handle was stored at an index below 32.
\* ---------------------------------------------------------------------
C14_RegistryWithinBounds ==
    /\ active_task_count \in 0 .. MAX_TASKS
    /\ oob_handle = {}

\* ------------------------------------------------------------------------
\* The routines under the tick interrupt and the scheduler (SpecTime)
\* ------------------------------------------------------------------------
MaxTicks == 4

\* the cores of the ESP32 the routines are scheduled on
portNUM_PROCESSORS == 2

\* two routines of priority 6 and a faster one of priority 5
TimeDoc ==
    TasksDoc(<<[TaskRecord(NameAt(1), <<"dht11">>, RequiredFields)
                    EXCEPT !.priority = 6, !.period_ms = 200],
               [TaskRecord(NameAt(2), <<"ultrasonic">>, RequiredFields)
                    EXCEPT !.priority = 6, !.period_ms = 200],
               [TaskRecord(NameAt(3), <<"mpu6050">>, RequiredFields)
                    EXCEPT !.priority = 5, !.period_ms = 20]>>)

\* a single-shot read busy-waits on its core (esp_rom_delay_us loops in
\* get_ultrasonic_data, bit-banging in dht_read_data)
Busy(q) == rt[q].pc = "read"

\* the scheduler gives r a core unless every core runs a routine of higher
\* priority that is busy
CanRun(r) ==
    Cardinality({q \in Tasks \ {r} :
                    Busy(q) /\ rt[q].config.priority > rt[r].config.priority})
        < portNUM_PROCESSORS

\* the wake time of the vTaskDelayUntil call r is blocked in has come
WakeDue(r) ==
    /\ rt[r].pc = "sleep"
    /\ xTickCount >= rt[r].start + pdMS_TO_TICKS(rt[r].config.period_ms)

\* the tick interrupt: it first unblocks the routines whose wake time has
\* come, and a routine that is ready at the top of its loop with a core to
\* run on reads the tick count before the next tick
Tick ==
    /\ mainPc = "returned"
    /\ xTickCount < MaxTicks
    /\ \A r \in Tasks : ~WakeDue(r)
    /\ \A r \in Tasks : ~(rt[r].pc = "start" /\ CanRun(r))
    /\ xTickCount' = xTickCount + 1
    /\ UNCHANGED <<mainVars, regVars, taskVars, lockVars, stopVars, rxVars>>

InitTime == InitWith({TimeDoc}, {TRUE})

NextTime ==
    \/ ParseBegin
    \/ RecordSpawn
    \/ ParseReturn
    \/ Tick
    \/ \E r \in Tasks : CanRun(r) /\ TaskStart(r)
    \/ \E r \in Tasks : CanRun(r) /\ TaskSlot(r)
    \/ \E r \in Tasks : CanRun(r) /\ SampleTake(r)
    \/ \E r \in Tasks :
        \E res \in ReadsOf(r, NominalDht, NominalDist, NominalAccel) :
            SampleRead(r, res)
    \/ \E r \in Tasks : CanRun(r) /\ SampleDelay(r)
    \/ \E r \in Tasks : CanRun(r) /\ ReaderReturn(r)
    \/ \E r \in Tasks : CanRun(r) /\ LogTake(r)
    \/ \E r \in Tasks : CanRun(r) /\ LogWriteEnd(r)
    \/ \E r \in Tasks : WakeDue(r) /\ TaskWake(r)

SpecTime == InitTime /\ [][NextTime]_vars

\* ---------------------------------------------------------------------
\* C17: as long as no cycle's work exceeds its period, each cycle of a
\* routine begins exactly one period after the previous one began (the k-th
\* at first_start + k * period), under every interleaving.
\* ---------------------------------------------------------------------
C17_NoDriftAcrossCycles ==
    [][\A r \in Tasks :
        (rt[r].pc = "start" /\ rt'[r].pc = "slot"
            /\ rt[r].start # NoTick /\ ~rt[r].overran)
        => rt'[r].start = rt[r].start]_vars

\* ------------------------------------------------------------------------
\* The routines under fair scheduling, task_manager_stop_all never called
\* (SpecFair)
\* ------------------------------------------------------------------------
\* two routines that share the DHT11 and the log, possibly polling the
\* ultrasonic sensor first
FairSensorLists == {<<"dht11">>, <<"ultrasonic", "dht11">>}

FairDocs ==
    {TasksDoc(<<TaskRecord(NameAt(1), a, RequiredFields),
                TaskRecord(NameAt(2), b, RequiredFields)>>) :
        a \in FairSensorLists, b \in FairSensorLists}

\* the routines a fairness condition is stated for
FairTasks == 1 .. 2

InitFair == InitWith(FairDocs, {TRUE})

\* the boot routine up to the return of task_manager_parse_and_create (its
\* status token is written without any lock) and the routines
NextFair ==
    \/ ParseBegin
    \/ RecordSpawn
    \/ ParseReturn
    \/ \E r \in Tasks : TaskStart(r)
    \/ \E r \in Tasks : TaskSlot(r)
    \/ \E r \in Tasks : SampleTake(r)
    \/ \E r \in Tasks :
        \E res \in ReadsOf(r, NominalDht, NominalDist, NominalAccel) :
            SampleRead(r, res)
    \/ \E r \in Tasks : SampleDelay(r)
    \/ \E r \in Tasks : ReaderReturn(r)
    \/ \E r \in Tasks : LogTake(r)
    \/ \E r \in Tasks : LogWriteEnd(r)
    \/ \E r \in Tasks : TaskWake(r)

\* every step of a routine other than a take is taken once it stays
\* possible: the routine is scheduled, its single-shot read and its write
\* return, its delays expire
RoutineProgress(r) ==
    /\ WF_vars(r \in Tasks /\ TaskStart(r))
    /\ WF_vars(r \in Tasks /\ TaskSlot(r))
    /\ WF_vars(r \in Tasks /\
                \E res \in ReadsOf(r, NominalDht, NominalDist, NominalAccel) :
                    SampleRead(r, res))
    /\ WF_vars(r \in Tasks /\ SampleDelay(r))
    /\ WF_vars(r \in Tasks /\ ReaderReturn(r))
    /\ WF_vars(r \in Tasks /\ LogWriteEnd(r))
    /\ WF_vars(r \in Tasks /\ TaskWake(r))

\* xSemaphoreGive readies the routine waiting in xSemaphoreTake, and a
\* routine that is readied again and again gets to run while the mutex is
\* free
TakeProgress(r) ==
    /\ SF_vars(r \in Tasks /\ SampleTake(r))
    /\ SF_vars(r \in Tasks /\ LogTake(r))

SpecFair ==
    /\ InitFair
    /\ [][NextFair]_vars
    /\ \A r \in FairTasks : RoutineProgress(r) /\ TakeProgress(r)

\* ---------------------------------------------------------------------
\* C21: when task_manager_stop_all is never called and every single-shot
\* read returns, under fair scheduling a routine blocked acquiring a sensor
\* lock or the log lock eventually acquires it, and in no reachable state
\* is every routine blocked on a lock.
\* ---------------------------------------------------------------------
\* routine r waits in xSemaphoreTake for a mutex another routine holds
Blocked(r) ==
    \/ rt[r].pc = "take" /\ mutex[MutexOf(KindOf(r))] # NULL
    \/ rt[r].pc = "log" /\ mutex["uart_mutex"] # NULL

\* where routine r is, once it exists
PcOf(r) == IF r \in Tasks THEN rt[r].pc ELSE "none"

====
